---- MODULE Spec2Model ----
(***************************************************************************)
(* Verification model of levelang-mcp: the API-key middleware of the HTTP  *)
(* transport (auth.py), the key parsing of config.py, and the translate    *)
(* tool of server.py with the backend client of client.py.                 *)
(*                                                                         *)
(* Python strings the code takes apart (headers, keys, raw environment     *)
(* values, texts) are sequences of one-character strings, so that split    *)
(* and strip are computed and not assumed.  Strings the code only compares *)
(* or passes on (paths, methods, messages) are TLA+ strings.               *)
(***************************************************************************)
EXTENDS Naturals, Sequences, FiniteSets, TLC

VARIABLES
    valid_keys,   \* APIKeyAuthMiddleware.valid_keys
    request,      \* the request given to the last dispatch
    response,     \* the response the last dispatch returned
    forwarded,    \* whether the last dispatch awaited call_next(request)
    branch,       \* the return statement the last dispatch left through
    emitted,      \* logger calls made by the last dispatch
    levelang,     \* server.levelang: the object the tools call
    t_pc,         \* position of the translate tool invocation
    t_args,       \* arguments of the current translate invocation
    t_answer,     \* what the backend call of this invocation yields
    t_sent,       \* keyword arguments handed to levelang.translate
    t_out,        \* how the invocation ended: returned string or raised
    l_pc,         \* position of the list_languages tool invocation
    l_answer,     \* what the backend call of this invocation yields
    l_out,        \* how the list_languages invocation ended
    c_pc,         \* position of the translate_compare invocation
    c_args,       \* the arguments of this invocation
    c_lookup,     \* what its get_language call yields
    c_codes,      \* level_codes, the effective level list
    c_task,       \* the state of the gathered task of each level
    c_outcomes,   \* how the translate call of each ended task ended
    c_entries,    \* what _translate_at_level returned in each ended task
    c_order,      \* the tasks in the order they ended
    c_calls,      \* the calls made to levelang.translate, in order
    c_out,        \* how the translate_compare invocation ended
    k_api_key,    \* LevelangClient._api_key
    k_call,       \* the last call of a LevelangClient method
    k_requests,   \* the HTTP requests that call gave to the httpx client
    k_result,     \* how that call ended
    k_closes,     \* how many times LevelangClient.close has been awaited
    m_transport,  \* settings.mcp_transport of the running process
    m_pc,         \* position of main()
    m_how,        \* how the transport stopped serving
    m_inv,        \* the tool invocations served by the transport
    s_env,        \* os.environ, the names config.py reads
    s_settings,   \* config._settings
    s_op,         \* the last operation on the settings or the environment
    s_got         \* the Settings the last get_settings() returned

authVars == <<valid_keys, request, response, forwarded, branch, emitted>>
toolVars == <<levelang, t_pc, t_args, t_answer, t_sent, t_out>>
listVars == <<l_pc, l_answer, l_out>>
cmpVars == <<c_pc, c_args, c_lookup, c_codes, c_task, c_outcomes, c_entries, c_order,
             c_calls, c_out>>
clientVars == <<k_api_key, k_call, k_requests, k_result>>
lifeVars == <<k_closes, m_transport, m_pc, m_how, m_inv>>
settingsVars == <<s_env, s_settings, s_op, s_got>>
vars == <<authVars, toolVars, listVars, cmpVars, clientVars, lifeVars, settingsVars>>

----------------------------------------------------------------------------
(* Bounds of the model *)

\* most spaces put between the scheme and the value of a generated header
MaxSep == 2

\* most whitespace characters put on either side of a generated text
MaxPad == 1

----------------------------------------------------------------------------
(* Python values *)

\* Optional[str]: None, or a present string
None == [has |-> FALSE, value |-> <<>>]
Some(v) == [has |-> TRUE, value |-> v]

\* what str.strip() removes
Whitespace == {" ", "\n", "\t"}

RECURSIVE lstrip(_)
lstrip(s) ==
    IF s = <<>> THEN s
    ELSE IF Head(s) \in Whitespace THEN lstrip(Tail(s)) ELSE s

RECURSIVE rstrip(_)
rstrip(s) ==
    IF s = <<>> THEN s
    ELSE IF s[Len(s)] \in Whitespace THEN rstrip(SubSeq(s, 1, Len(s) - 1)) ELSE s

\* str.strip()
strip(s) == rstrip(lstrip(s))

\* index of the first occurrence of character c in s, 0 when there is none
find(s, c) ==
    IF \E i \in 1..Len(s) : s[i] = c
    THEN CHOOSE i \in 1..Len(s) : s[i] = c /\ \A j \in 1..(i - 1) : s[j] # c
    ELSE 0

\* s.split(c, maxsplit=1)
split_once(s, c) ==
    LET i == find(s, c) IN
    IF i = 0 THEN <<s>>
    ELSE <<SubSeq(s, 1, i - 1), SubSeq(s, i + 1, Len(s))>>

\* s.split(c)
RECURSIVE split(_, _)
split(s, c) ==
    LET i == find(s, c) IN
    IF i = 0 THEN <<s>>
    ELSE <<SubSeq(s, 1, i - 1)>> \o split(SubSeq(s, i + 1, Len(s)), c)

\* n spaces
RECURSIVE Spaces(_)
Spaces(n) == IF n = 0 THEN <<>> ELSE <<" ">> \o Spaces(n - 1)

----------------------------------------------------------------------------
(* config.py: MCP_API_KEYS *)

\* config._parse_api_keys
_parse_api_keys(raw) ==
    IF ~raw.has \/ raw.value = <<>> THEN {}
    ELSE LET parts == split(raw.value, ",")
         IN {strip(parts[i]) : i \in DOMAIN parts} \ {<<>>}

KeyA == <<"k", "a">>
KeyB == <<"k", "b">>

\* values of the MCP_API_KEYS environment variable the server is started with
RawKeyEnvs ==
    { None,
      Some(<<>>),
      Some(Spaces(2)),
      Some(KeyA),
      Some(KeyA \o <<",">> \o KeyB),
      Some(<<" ">> \o KeyA \o <<" ", ",", ",", " ">> \o KeyB \o <<",">>),
      Some(<<"k", " ", "a">>) }

----------------------------------------------------------------------------
(* auth.py: APIKeyAuthMiddleware *)

_PUBLIC_PATHS == {"/health"}

Bearer == <<"B", "e", "a", "r", "e", "r">>

MSG_MISSING == "Auth failed: missing Authorization header (client=%s)"
MSG_MALFORMED == "Auth failed: malformed Authorization header (client=%s)"
MSG_INVALID == "Auth failed: invalid API key (client=%s)"

ERR_MISSING == "Missing Authorization header"
ERR_MALFORMED == "Invalid Authorization header format, expected 'Bearer <key>'"
ERR_INVALID == "Invalid API key"

\* logger.warning(msg, *args)
WarningAsInfo(msg, args) == [level |-> "INFO", msg |-> msg, args |-> args]
Warning(msg, args) == [level |-> "WARNING", msg |-> msg, args |-> args]

\* JSONResponse({"error": text}, status_code=401)
Reject(text) == [status |-> 401, by |-> "middleware", error |-> text]

\* what the log entries of the invalid-key branch are formatted with
InvalidKeyLogArgsLeaky(client_ip, key) == <<client_ip, key>>
InvalidKeyLogArgs(client_ip, key) == <<client_ip>>

\* the text after "Bearer " that is looked up in valid_keys
PresentedKeyTrimmed(parts) == strip(parts[2])
PresentedKey(parts) == parts[2]

\* whether the header's scheme token is accepted
SchemeOkAnyCase(scheme) ==
    scheme \in {Bearer, <<"b", "e", "a", "r", "e", "r">>,
                <<"B", "E", "A", "R", "E", "R">>}
SchemeOk(scheme) == scheme = Bearer

\* request.url.path in _PUBLIC_PATHS
IsPublicPathNever(path) == FALSE
IsPublicPath(path) == path \in _PUBLIC_PATHS

\* not self.valid_keys
AuthDisabledNever(keys) == FALSE
AuthDisabled(keys) == keys = {}

\* not auth_header: the header is absent, or present and empty
HeaderMissing(auth_header) == ~auth_header.has \/ auth_header.value = <<>>

\* APIKeyAuthMiddleware.dispatch: the branch taken, whether call_next is
\* awaited, the response returned and the log entries written.  `inner` is
\* the response call_next would give.
dispatch(keys, req, inner) ==
    LET client_ip == IF req.client.has THEN req.client.host ELSE "unknown"
        auth_header == req.header
        parts == split_once(auth_header.value, " ")
        pass(b) == [branch |-> b, forward |-> TRUE, response |-> inner, log |-> <<>>]
        deny(b, msg, args, err) ==
            [branch |-> b, forward |-> FALSE, response |-> Reject(err),
             log |-> <<Warning(msg, args)>>]
    IN  IF IsPublicPath(req.path)
        THEN pass("public")
        ELSE IF AuthDisabled(keys)
        THEN pass("disabled")
        ELSE IF HeaderMissing(auth_header)
        THEN deny("missing", MSG_MISSING, <<client_ip>>, ERR_MISSING)
        ELSE IF Len(parts) # 2 \/ ~SchemeOk(parts[1])
        THEN deny("malformed", MSG_MALFORMED, <<client_ip>>, ERR_MALFORMED)
        ELSE IF PresentedKey(parts) \notin keys
        THEN deny("invalid", MSG_INVALID,
                  InvalidKeyLogArgs(client_ip, PresentedKey(parts)), ERR_INVALID)
        ELSE pass("valid")

----------------------------------------------------------------------------
(* Requests the transport hands to the middleware *)

Paths == {"/health", "/mcp"}
Methods == {"GET", "POST"}
Clients == {[has |-> FALSE, host |-> ""], [has |-> TRUE, host |-> "10.0.0.7"]}

Schemes ==
    { <<>>, Bearer, <<"b", "e", "a", "r", "e", "r">>,
      <<"B", "E", "A", "R", "E", "R">>, <<"B", "a", "s", "i", "c">> }
Separators == {Spaces(n) : n \in 0..MaxSep}
HeaderValues == {<<>>, KeyA, KeyB, <<"k", " ", "a">>}

\* the Authorization header: absent, or scheme, separator and value put together
Headers ==
    {None} \cup {Some(s \o sep \o v) : s \in Schemes, sep \in Separators, v \in HeaderValues}

Requests == [path : Paths, method : Methods, client : Clients, header : Headers]

\* responses of the application behind the middleware
InnerResponses ==
    { [status |-> 200, by |-> "app", error |-> ""],
      [status |-> 404, by |-> "app", error |-> ""] }

NoRequest == [path |-> "", method |-> "", client |-> [has |-> FALSE, host |-> ""], header |-> None]
NoResponse == [status |-> 0, by |-> "", error |-> ""]

----------------------------------------------------------------------------
(* Python strings that are only built and returned: sequences of pieces,   *)
(* each piece a literal of the code or a value put into an f-string        *)

Digit == <<"0", "1", "2", "3", "4", "5", "6", "7", "8", "9">>

\* str(n) for a natural number, as its decimal digits
RECURSIVE str_int(_)
str_int(n) == IF n < 10 THEN <<Digit[n + 1]>> ELSE str_int(n \div 10) \o <<Digit[(n % 10) + 1]>>

\* "\n".join(lines)
RECURSIVE join_lines(_)
join_lines(lines) ==
    IF lines = <<>> THEN <<>>
    ELSE IF Len(lines) = 1 THEN lines[1]
    ELSE lines[1] \o <<"\n">> \o join_lines(Tail(lines))

\* JSON null, as a dict value
JNull == "<null>"

\* d.get(k, default)
Get(d, k, default) == IF k \in DOMAIN d THEN d[k] ELSE default

\* truth value of a str-or-None dict value
Truthy(v) == v # JNull /\ v # ""

\* an exception object: its class, the response it carries, str(e)
Exc(type, text) == [type |-> type, status |-> 0, body |-> <<>>, text |-> text]
HTTPStatusError(status, body) ==
    [type |-> "HTTPStatusError", status |-> status, body |-> body, text |-> "HTTP error"]

Returned(v) == [kind |-> "return", value |-> v, exc |-> Exc("", "")]
Raised(e) == [kind |-> "raise", value |-> <<>>, exc |-> e]

----------------------------------------------------------------------------
(* formatting.py *)

\* formatting.format_translation: the string, or the exception it ends with
format_translation(result) ==
    IF result.type # "object"
    THEN Raised(Exc("TypeError", "indices must be integers or slices, not str"))
    ELSE IF "translation" \notin DOMAIN result.obj
    THEN Raised(Exc("KeyError", "'translation'"))
    ELSE
    LET r == result.obj
        metadata == Get(r, "metadata", <<>>)
        level == Get(metadata, "level", "")
        level_desc == Get(metadata, "level_description", "")
        provider == Get(metadata, "provider", "")
        model == Get(metadata, "model", "")
        l1 == << <<"Translation: ", r["translation"]>> >>
        l2 == IF Truthy(Get(r, "transliteration", JNull))
              THEN << <<"Transliteration: ", r["transliteration"]>> >> ELSE <<>>
        l3 == IF Truthy(Get(r, "transcription", JNull))
              THEN << <<"Transcription: ", r["transcription"]>> >> ELSE <<>>
        m1 == IF Truthy(level) /\ Truthy(level_desc)
              THEN << <<"Level: ", level, " (", level_desc, ")">> >>
              ELSE IF Truthy(level) THEN << <<"Level: ", level>> >> ELSE <<>>
        m2 == IF Truthy(Get(metadata, "mood", JNull))
              THEN << <<"Mood: ", metadata["mood"]>> >> ELSE <<>>
        m3 == IF Truthy(Get(metadata, "mode", JNull))
              THEN << <<"Mode: ", metadata["mode"]>> >> ELSE <<>>
        m4 == IF Truthy(provider) /\ Truthy(model)
              THEN << <<"Provider: ", provider, " / ", model>> >>
              ELSE IF Truthy(provider) THEN << <<"Provider: ", provider>> >> ELSE <<>>
        m5 == IF Get(metadata, "processing_time_ms", JNull) # JNull
              THEN << <<"Processing time: ", metadata["processing_time_ms"], "ms">> >>
              ELSE <<>>
        meta == IF DOMAIN metadata # {} THEN m1 \o m2 \o m3 \o m4 \o m5 ELSE <<>>
    IN  Returned(join_lines(l1 \o l2 \o l3 \o meta))

----------------------------------------------------------------------------
(* client.py: LevelangClient, and the object server.levelang is bound to *)

\* parameters of LevelangClient.translate
TranslateParams ==
    {"text", "source_language_code", "target_language_code", "level", "mood"}

\* binding the keyword arguments of a call to LevelangClient.translate
BindsTranslate(kwargs) == DOMAIN kwargs \subseteq TranslateParams

\* whether the object bound to server.levelang takes these keyword arguments:
\* the repository's client binds them to its signature, a mock takes any
AcceptsCall(client, kwargs) ==
    IF client = "LevelangClient" THEN BindsTranslate(kwargs) ELSE TRUE

Is2xx(status) == status >= 200 /\ status < 300

\* what awaiting the client call yields for a backend answer:
\* response.raise_for_status() and response.json() of LevelangClient.translate
ClientOutcome(answer) ==
    CASE answer.kind = "timeout" -> Raised(Exc("TimeoutException", "timeout"))
      [] answer.kind = "connect" -> Raised(Exc("ConnectError", "refused"))
      [] answer.kind = "other" -> Raised(Exc("RuntimeError", "boom"))
      [] OTHER ->
            IF ~Is2xx(answer.status)
            THEN Raised(HTTPStatusError(answer.status, answer.body))
            ELSE IF answer.body.type = "invalid"
            THEN Raised(Exc("JSONDecodeError", "Expecting value"))
            ELSE [kind |-> "return", value |-> answer.body, exc |-> Exc("", "")]

----------------------------------------------------------------------------
(* server.py: _sanitize_text and the translate tool *)

\* server._sanitize_text
_sanitize_text_left(text) == lstrip(text)
_sanitize_text(text) == strip(text)

MSG_RATE_LIMIT == "Rate limit reached. Please wait a moment and try again."
MSG_UNAVAILABLE == "Translation service is temporarily unavailable. Please try again."
MSG_TIMEOUT == "Translation request timed out. The backend may be under heavy load."
MSG_CANNOT_REACH == "Cannot reach the Levelang backend. Check that the service is running."

\* e.response.json().get("detail", "Validation error") of the 422 branch:
\* json() raises on a body that is no JSON, .get on a value that is no dict
Detail422(body) ==
    IF body.type = "invalid" THEN Raised(Exc("JSONDecodeError", "Expecting value"))
    ELSE IF body.type # "object"
    THEN Raised(Exc("AttributeError", "object has no attribute 'get'"))
    ELSE Returned(<<Get(body.obj, "detail", "Validation error")>>)

\* the except clauses of translate, in their order, for an exception e raised
\* inside the try block; an exception raised inside a clause leaves the tool
translate_except(e) ==
    IF e.type = "HTTPStatusError"
    THEN IF e.status = 422
         THEN LET detail == Detail422(e.body) IN
              IF detail.kind = "raise" THEN detail
              ELSE Returned(<<"Invalid request: ">> \o detail.value)
         ELSE IF e.status = 429 THEN Returned(<<MSG_RATE_LIMIT>>)
         ELSE IF e.status >= 500 THEN Returned(<<MSG_UNAVAILABLE>>)
         ELSE Returned(<<"Backend error (HTTP ">> \o str_int(e.status)
                        \o <<"): ", e.body.text>>)
    ELSE IF e.type = "TimeoutException" THEN Returned(<<MSG_TIMEOUT>>)
    ELSE IF e.type = "ConnectError" THEN Returned(<<MSG_CANNOT_REACH>>)
    ELSE Returned(<<"Unexpected error: ", e.text>>)

\* the keyword arguments translate hands to levelang.translate
translate_kwargs(a) ==
    [text |-> _sanitize_text(a.text),
     source_language_code |-> a.source_language,
     target_language_code |-> a.target_language,
     level |-> a.level,
     mood |-> a.mood,
     mode |-> a.mode]

\* the rest of the try block once the awaited call has ended with `outcome`
translate_after_call(outcome) ==
    IF outcome.kind = "raise" THEN translate_except(outcome.exc)
    ELSE LET text == format_translation(outcome.value) IN
         IF text.kind = "raise" THEN translate_except(text.exc) ELSE text

----------------------------------------------------------------------------
(* Tool invocations and backend answers *)

Pads == UNION {[1..n -> Whitespace] : n \in 0..MaxPad}
Cores == {<<>>, <<"H", "i">>, <<"a", "\n", "b">>}
Texts == {l \o c \o r : l \in Pads, c \in Cores, r \in Pads}

NoMode == "<None>"
Modes == {NoMode, "spoken"}

TranslateArgs ==
    [text : Texts, target_language : {"fra"}, level : {"beginner"},
     source_language : {"eng"}, mood : {"casual"}, mode : Modes]

JsonObject(text, obj) == [type |-> "object", text |-> text, obj |-> obj]
JsonArray == [type |-> "array", text |-> "[]", obj |-> <<>>]
NotJson == [type |-> "invalid", text |-> "Bad Gateway", obj |-> <<>>]

\* Translation Results, and an object that is none
TranslationBodies ==
    { JsonObject("full",
        [translation |-> "Bonjour le monde", transliteration |-> JNull,
         transcription |-> JNull,
         metadata |-> [level |-> "A2", level_description |-> "elementary proficiency",
                       mood |-> "Casual", mode |-> "Written", provider |-> "gemini",
                       model |-> "gemini-2.5-flash-lite", processing_time_ms |-> "800"],
         session_id |-> "abc-123"]),
      JsonObject("translit",
        [translation |-> "ni hao", transliteration |-> "nǐ hǎo",
         metadata |-> [level |-> "HSK1", provider |-> "gemini"]]),
      JsonObject("bare", [translation |-> "Hallo"]) }
MalformedBodies == {JsonObject("no translation", [session_id |-> "abc-123"])}

ErrorBodies ==
    { JsonObject("{\"detail\": \"Invalid language code\"}", [detail |-> "Invalid language code"]),
      JsonObject("{\"message\": \"no\"}", [message |-> "no"]),
      JsonArray, NotJson }

ErrorStatuses == {301, 404, 422, 429, 500, 503}

Response(status, body) == [kind |-> "response", status |-> status, body |-> body]
Failure(kind) == [kind |-> kind, status |-> 0, body |-> NotJson]

\* what the backend call of an invocation can end with
Answers ==
    {Response(200, b) : b \in TranslationBodies \cup MalformedBodies \cup {JsonArray, NotJson}}
    \cup {Response(st, b) : st \in ErrorStatuses, b \in ErrorBodies}
    \cup {Failure("timeout"), Failure("connect"), Failure("other")}

NoArgs ==
    [text |-> <<>>, target_language |-> "", level |-> "", source_language |-> "",
     mood |-> "", mode |-> NoMode]
NoAnswer == Failure("none")
NothingSent == [sent |-> FALSE]
NoOutcome == [kind |-> "none", value |-> <<>>, exc |-> Exc("", "")]

\* server.py binds levelang to LevelangClient(); the tool tests bind it to a mock
ToolInit ==
    /\ levelang \in {"LevelangClient", "AsyncMock"}
    /\ t_pc = "idle"
    /\ t_args = NoArgs
    /\ t_answer = NoAnswer
    /\ t_sent = NothingSent
    /\ t_out = NoOutcome

\* translate is invoked and runs up to its await: when the call to
\* levelang.translate cannot be made, the TypeError is handled at once
translate_call ==
    /\ t_pc = "idle"
    /\ \E a \in TranslateArgs, answer \in Answers :
        LET kwargs == translate_kwargs(a) IN
        /\ t_args' = a
        /\ t_answer' = answer
        /\ IF AcceptsCall(levelang, kwargs)
           THEN /\ t_pc' = "awaiting"
                /\ t_sent' = [sent |-> TRUE, kwargs |-> kwargs]
                /\ t_out' = NoOutcome
           ELSE /\ t_pc' = "done"
                /\ t_sent' = NothingSent
                /\ t_out' = translate_except(Exc("TypeError",
                       "LevelangClient.translate() got an unexpected keyword argument 'mode'"))
    /\ UNCHANGED <<levelang, authVars, listVars, cmpVars, clientVars, lifeVars, settingsVars>>

\* the awaited call ends and translate runs to its end
translate_resume ==
    /\ t_pc = "awaiting"
    /\ t_pc' = "done"
    /\ t_out' = translate_after_call(ClientOutcome(t_answer))
    /\ UNCHANGED <<levelang, t_args, t_answer, t_sent, authVars, listVars, cmpVars, clientVars, lifeVars, settingsVars>>

\* the invocation is over: its result has gone to the caller
translate_exit ==
    /\ t_pc = "done"
    /\ t_pc' = "idle"
    /\ t_args' = NoArgs
    /\ t_answer' = NoAnswer
    /\ t_sent' = NothingSent
    /\ t_out' = NoOutcome
    /\ UNCHANGED <<levelang, authVars, listVars, cmpVars, clientVars, lifeVars, settingsVars>>

\* __main__._run_streamable_http: add_middleware(APIKeyAuthMiddleware,
\* valid_keys=settings.mcp_api_keys)
AuthInit ==
    /\ \E raw \in RawKeyEnvs : valid_keys = _parse_api_keys(raw)
    /\ request = NoRequest
    /\ response = NoResponse
    /\ forwarded = FALSE
    /\ branch = "none"
    /\ emitted = <<>>

\* one request through APIKeyAuthMiddleware.dispatch
DispatchAmong(requests) ==
    \E req \in requests, inner \in InnerResponses :
        LET d == dispatch(valid_keys, req, inner) IN
        /\ request' = req
        /\ response' = d.response
        /\ forwarded' = d.forward
        /\ branch' = d.branch
        /\ emitted' = d.log
        /\ UNCHANGED <<valid_keys, toolVars, listVars, cmpVars, clientVars, lifeVars, settingsVars>>

Dispatch == DispatchAmong(Requests)

----------------------------------------------------------------------------
(* formatting.py: format_language_list *)

\* sep.join(items), items being strings
RECURSIVE join_with(_, _)
join_with(items, sep) ==
    IF items = <<>> THEN <<>>
    ELSE IF Len(items) = 1 THEN <<items[1]>>
    ELSE <<items[1], sep>> \o join_with(Tail(items), sep)

\* str.rstrip() of a string built from pieces: the trailing pieces that are
\* whitespace or empty go
RECURSIVE rstrip_pieces(_)
rstrip_pieces(ps) ==
    IF ps = <<>> THEN ps
    ELSE IF ps[Len(ps)] \in Whitespace \cup {""}
    THEN rstrip_pieces(SubSeq(ps, 1, Len(ps) - 1)) ELSE ps

\* [x.get("display_name", x.get("code", "")) for x in items]
display_names(items) ==
    [i \in DOMAIN items |-> Get(items[i], "display_name", Get(items[i], "code", ""))]

\* the lines format_language_list adds for one language
language_lines(lang) ==
    LET levels == Get(lang, "levels", <<>>)
        moods == Get(lang, "moods", <<>>)
        modes == Get(lang, "modes", <<>>)
        roles == (IF Get(lang, "can_be_source", FALSE) THEN <<"source">> ELSE <<>>)
                 \o (IF Get(lang, "can_be_target", FALSE) THEN <<"target">> ELSE <<>>)
    IN  << <<lang["name"], " (", lang["code"], ")">> >>
        \o (IF levels # <<>>
            THEN << <<"  Levels: ">> \o join_with(display_names(levels), ", ") >> ELSE <<>>)
        \o (IF moods # <<>>
            THEN << <<"  Moods: ">> \o join_with(display_names(moods), ", ") >> ELSE <<>>)
        \o (IF modes # <<>>
            THEN << <<"  Modes: ">> \o join_with(display_names(modes), ", ") >> ELSE <<>>)
        \o (IF roles # <<>>
            THEN << <<"  Can be: ">> \o join_with(roles, ", ") >> ELSE <<>>)
        \o << <<"">> >>

RECURSIVE languages_lines(_)
languages_lines(languages) ==
    IF languages = <<>> THEN <<>>
    ELSE language_lines(Head(languages)) \o languages_lines(Tail(languages))

\* formatting.format_language_list: the string, or the exception it ends with
format_language_list(result) ==
    IF result.type # "object"
    THEN Raised(Exc("AttributeError", "object has no attribute 'get'"))
    ELSE LET languages == Get(result.obj, "languages", <<>>) IN
         IF languages = <<>> THEN Returned(<<"No languages available.">>)
         ELSE IF \E i \in DOMAIN languages : "name" \notin DOMAIN languages[i]
         THEN Raised(Exc("KeyError", "'name'"))
         ELSE IF \E i \in DOMAIN languages : "code" \notin DOMAIN languages[i]
         THEN Raised(Exc("KeyError", "'code'"))
         ELSE Returned(rstrip_pieces(join_lines(
                  << <<"Supported Languages:">>, <<"">> >> \o languages_lines(languages))))

----------------------------------------------------------------------------
(* server.py: the list_languages tool *)

MSG_LANG_UNAVAILABLE == "Language service is temporarily unavailable. Please try again."
MSG_LANG_TIMEOUT == "Request timed out while fetching languages."

\* the status from which list_languages answers "temporarily unavailable"
UnavailableFromAbove(status) == status > 500
UnavailableFrom(status) == status >= 500

\* the except clauses of list_languages, in their order
list_languages_except(e) ==
    IF e.type = "HTTPStatusError"
    THEN IF UnavailableFrom(e.status) THEN Returned(<<MSG_LANG_UNAVAILABLE>>)
         ELSE Returned(<<"Backend error (HTTP ">> \o str_int(e.status)
                        \o <<"): ", e.body.text>>)
    ELSE IF e.type = "TimeoutException" THEN Returned(<<MSG_LANG_TIMEOUT>>)
    ELSE IF e.type = "ConnectError" THEN Returned(<<MSG_CANNOT_REACH>>)
    ELSE Returned(<<"Unexpected error: ", e.text>>)

\* the rest of the try block once the awaited get_languages has ended
list_languages_after_call(outcome) ==
    IF outcome.kind = "raise" THEN list_languages_except(outcome.exc)
    ELSE LET text == format_language_list(outcome.value) IN
         IF text.kind = "raise" THEN list_languages_except(text.exc) ELSE text

French ==
    [code |-> "fra", name |-> "French", can_be_source |-> FALSE, can_be_target |-> TRUE,
     levels |-> << [code |-> "beginner", display_name |-> "Beginner"],
                   [code |-> "advanced"] >>,
     moods |-> << [code |-> "casual", display_name |-> "Casual", is_default |-> TRUE] >>,
     modes |-> << [code |-> "written", display_name |-> "Written"],
                  [code |-> "spoken", display_name |-> "Spoken"] >>]
Mandarin ==
    [code |-> "cmn", name |-> "Mandarin Chinese", can_be_source |-> TRUE,
     can_be_target |-> TRUE, levels |-> << [display_name |-> "HSK1"] >>, modes |-> <<>>]

\* bodies of GET /languages/details: listings, and objects that are none
LanguageListBodies ==
    { JsonObject("two", [languages |-> <<French, Mandarin>>, total_count |-> "2"]),
      JsonObject("one", [languages |-> <<Mandarin>>]),
      JsonObject("none", [languages |-> <<>>, total_count |-> "0"]),
      JsonObject("empty", [total_count |-> "0"]) }
MalformedListBodies ==
    { JsonObject("no name", [languages |-> << [code |-> "fra"] >>]),
      JsonObject("no code", [languages |-> << [name |-> "French"] >>]) }

\* what the backend call of a list_languages invocation can end with
ListAnswers ==
    {Response(200, b) : b \in LanguageListBodies \cup MalformedListBodies \cup {JsonArray, NotJson}}
    \cup {Response(st, b) : st \in ErrorStatuses \cup {499, 501}, b \in ErrorBodies}
    \cup {Failure("timeout"), Failure("connect"), Failure("other")}

ListInit ==
    /\ l_pc = "idle"
    /\ l_answer = NoAnswer
    /\ l_out = NoOutcome

\* list_languages is invoked and awaits levelang.get_languages()
list_languages_call ==
    /\ l_pc = "idle"
    /\ l_pc' = "awaiting"
    /\ l_answer' \in ListAnswers
    /\ l_out' = NoOutcome
    /\ UNCHANGED <<authVars, toolVars, cmpVars, clientVars, lifeVars, settingsVars>>

\* the awaited call ends and list_languages runs to its end
list_languages_resume ==
    /\ l_pc = "awaiting"
    /\ l_pc' = "done"
    /\ l_out' = list_languages_after_call(ClientOutcome(l_answer))
    /\ UNCHANGED <<l_answer, authVars, toolVars, cmpVars, clientVars, lifeVars, settingsVars>>

\* the invocation is over: its result has gone to the caller
list_languages_exit ==
    /\ l_pc = "done"
    /\ l_pc' = "idle"
    /\ l_answer' = NoAnswer
    /\ l_out' = NoOutcome
    /\ UNCHANGED <<authVars, toolVars, cmpVars, clientVars, lifeVars, settingsVars>>

----------------------------------------------------------------------------
(* formatting.py: format_comparison *)

Lower == <<"a", "b", "c", "d", "e", "f", "g", "h", "i", "j", "k", "l", "m",
           "n", "o", "p", "q", "r", "s", "t", "u", "v", "w", "x", "y", "z">>
Upper == <<"A", "B", "C", "D", "E", "F", "G", "H", "I", "J", "K", "L", "M",
           "N", "O", "P", "Q", "R", "S", "T", "U", "V", "W", "X", "Y", "Z">>

upper(c) == IF \E i \in DOMAIN Lower : Lower[i] = c
            THEN Upper[CHOOSE i \in DOMAIN Lower : Lower[i] = c] ELSE c
lower(c) == IF \E i \in DOMAIN Upper : Upper[i] = c
            THEN Lower[CHOOSE i \in DOMAIN Upper : Upper[i] = c] ELSE c

\* str.capitalize(): first character upper case, the rest lower case
capitalize(s) ==
    [i \in DOMAIN s |-> IF i = 1 THEN upper(s[i]) ELSE lower(s[i])]

Written == <<"w", "r", "i", "t", "t", "e", "n">>
Spoken == <<"s", "p", "o", "k", "e", "n">>

\* the header line of a comparison; mode is None or Some(string)
comparison_header(language_name, mood, mode) ==
    <<"Language: ", language_name, " | Mood: ">> \o capitalize(mood)
    \o (IF mode.has /\ mode.value # <<>> /\ mode.value # Written
        THEN <<" | Mode: ">> \o capitalize(mode.value) ELSE <<>>)

\* whether format_comparison can format an entry: result.get needs a dict
entry_formats(entry) == ~entry.ok \/ entry.result.type = "object"

\* the lines format_comparison adds for one entry; the two box-drawing
\* characters (U+2500) on each side of the heading are written "--"
entry_lines(entry) ==
    << <<"-- ">> \o capitalize(entry.level) \o <<" --">> >>
    \o (IF ~entry.ok THEN << <<"  Error: ", entry.error>> >>
        ELSE LET result == entry.result.obj
                 metadata == Get(result, "metadata", <<>>)
                 processing_time == Get(metadata, "processing_time_ms", JNull)
             IN  << <<Get(result, "translation", "(no translation)")>> >>
                 \o (IF Truthy(Get(result, "transliteration", JNull))
                     THEN << <<"  Transliteration: ", result["transliteration"]>> >>
                     ELSE <<>>)
                 \o (IF processing_time # JNull
                     THEN << <<"  (", processing_time, "ms)">> >> ELSE <<>>))
    \o << <<"">> >>

RECURSIVE entries_lines(_)
entries_lines(results) ==
    IF results = <<>> THEN <<>>
    ELSE entry_lines(Head(results)) \o entries_lines(Tail(results))

\* formatting.format_comparison: the report, or the exception it ends with
format_comparison(text, language_name, mood, results, mode) ==
    IF \E i \in DOMAIN results : ~entry_formats(results[i])
    THEN Raised(Exc("AttributeError", "object has no attribute 'get'"))
    ELSE Returned(rstrip_pieces(join_lines(
             << <<"Comparing translations of: \"">> \o text \o <<"\"">>,
                comparison_header(language_name, mood, mode),
                <<"">> >>
             \o entries_lines(results))))

----------------------------------------------------------------------------
(* server.py: the translate_compare tool *)

MSG_DETAILS_TIMEOUT == "Request timed out while fetching language details."

\* the status the lookup reports as an unknown language
IsNotFoundNever(status) == FALSE
IsNotFound(status) == status = 404

\* the except clauses around levelang.get_language, in their order
compare_lookup_except(e, target_language) ==
    IF e.type = "HTTPStatusError"
    THEN IF IsNotFound(e.status)
         THEN Returned(<<"Language '", target_language,
                         "' not found. Use list_languages to see available codes.">>)
         ELSE Returned(<<"Backend error (HTTP ">> \o str_int(e.status)
                        \o <<"): ", e.body.text>>)
    ELSE IF e.type = "ConnectError" THEN Returned(<<MSG_CANNOT_REACH>>)
    ELSE IF e.type = "TimeoutException" THEN Returned(<<MSG_DETAILS_TIMEOUT>>)
    ELSE Returned(<<"Unexpected error: ", e.text>>)

\* lv.get("code") is truthy
HasCode(lv) == "code" \in DOMAIN lv /\ lv["code"] # <<>>

\* [lv.get("code", "") for lv in available_levels if lv.get("code")]
available_codes_of(available_levels) ==
    LET coded == SelectSeq(available_levels, HasCode)
    IN  [i \in DOMAIN coded |-> coded[i]["code"]]

InSeq(x, seq) == \E i \in DOMAIN seq : seq[i] = x

\* [lv for lv in levels if lv not in available_codes]
InvalidLevelsNone(levels, available_codes) == <<>>
InvalidLevelsFirst(levels, available_codes) ==
    LET bad == SelectSeq(levels, LAMBDA lv : ~InSeq(lv, available_codes))
    IN  IF bad = <<>> THEN bad ELSE <<bad[1]>>
InvalidLevels(levels, available_codes) ==
    SelectSeq(levels, LAMBDA lv : ~InSeq(lv, available_codes))

\* level_codes: levels when given, else available_codes
EffectiveLevelsAll(levels, available_codes) == available_codes
EffectiveLevels(levels, available_codes) ==
    IF levels.has THEN levels.value ELSE available_codes

\* ", ".join(codes), each code a string of characters
RECURSIVE join_codes(_)
join_codes(codes) ==
    IF codes = <<>> THEN <<>>
    ELSE IF Len(codes) = 1 THEN codes[1]
    ELSE codes[1] \o <<", ">> \o join_codes(Tail(codes))

FanOut(level_codes) == [kind |-> "fanout", value |-> level_codes, exc |-> Exc("", "")]

\* translate_compare from the end of the awaited get_language to the fan-out:
\* an abort message, an exception, or the level codes to translate at
compare_after_lookup(a, outcome) ==
    IF outcome.kind = "raise" THEN compare_lookup_except(outcome.exc, a.target_language)
    ELSE IF outcome.value.type # "object"
    THEN Raised(Exc("AttributeError", "object has no attribute 'get'"))
    ELSE LET available_levels == Get(outcome.value.obj, "levels", <<>>)
             available_codes == available_codes_of(available_levels)
             invalid == IF a.levels.has
                        THEN InvalidLevels(a.levels.value, available_codes) ELSE <<>>
         IN  IF available_levels = <<>>
             THEN Returned(<<"No proficiency levels configured for '",
                             a.target_language, "'.">>)
             ELSE IF invalid # <<>>
             THEN Returned(<<"Invalid level(s): ">> \o join_codes(invalid)
                            \o <<". Available levels for '", a.target_language, "': ">>
                            \o join_codes(available_codes))
             ELSE FanOut(EffectiveLevels(a.levels, available_codes))

\* the keyword arguments _translate_at_level gives levelang.translate
compare_kwargs(a, level) ==
    [text |-> _sanitize_text(a.text),
     source_language_code |-> a.source_language,
     target_language_code |-> a.target_language,
     level |-> level,
     mood |-> a.mood,
     mode |-> a.mode]

\* what _translate_at_level returns for the way its call ended
_translate_at_level_both(level, outcome) ==
    IF outcome.kind = "return"
    THEN [level |-> level, ok |-> TRUE, result |-> outcome.value, error |-> ""]
    ELSE [level |-> level, ok |-> FALSE, error |-> outcome.exc.text,
          result |-> outcome.value]
_translate_at_level(level, outcome) ==
    IF outcome.kind = "return"
    THEN [level |-> level, ok |-> TRUE, result |-> outcome.value]
    ELSE [level |-> level, ok |-> FALSE, error |-> outcome.exc.text]

\* the call of a task that never reaches the backend: the client rejects the
\* keyword arguments
BindingFailure ==
    Raised(Exc("TypeError", "translate() got an unexpected keyword argument 'mode'"))

\* whether the task for the i-th level may take its first step: the event
\* loop starts the tasks of a gather in argument order
MayStartAfterDone(task, i) ==
    task[i] = "pending" /\ \A j \in 1..(i - 1) : task[j] = "done"
MayStart(task, i) ==
    task[i] = "pending" /\ \A j \in 1..(i - 1) : task[j] # "pending"

\* the tasks of the gather after the i-th has ended with `outcome`
after_completion_cancel(task, i, outcome) ==
    IF outcome.kind = "raise" THEN [j \in DOMAIN task |-> "done"]
    ELSE [task EXCEPT ![i] = "done"]
after_completion(task, i, outcome) == [task EXCEPT ![i] = "done"]

\* whether the awaited gather is over: every task has ended
AnyEnded(task) == \E i \in DOMAIN task : task[i] = "done"
AllEnded(task) == \A i \in DOMAIN task : task[i] = "done"

\* asyncio.gather's result list: one result per awaitable, in argument order
gather_results_by_completion(entries, order) ==
    [k \in DOMAIN order |-> entries[order[k]]]
gather_results(entries, order) ==
    [k \in DOMAIN order |-> entries[k]]

\* the most levels a language has, and the most level codes a caller gives
MaxLevels == 2

\* level codes of the backend, in its order, and codes it does not know
LevelCodes == << <<"l", "o">>, <<"m", "i", "d">>, <<"h", "i">>, <<"t", "o", "p">> >>
UnknownCodes == << <<"H", "S", "K", "1">>, <<"c", "2">> >>
RequestCodes == {LevelCodes[1], LevelCodes[2], UnknownCodes[1], UnknownCodes[2]}

LevelsOf(n) == [i \in 1..n |-> [code |-> LevelCodes[i], display_name |-> "Level"]]

\* bodies of GET /languages/{code}: Language Configurations with 0..MaxLevels
\* levels, and objects that lack the name, the levels or the code of a level
LanguageConfigs ==
    { JsonObject("config", [code |-> "fra", name |-> "French", levels |-> LevelsOf(n)]) :
          n \in 0..MaxLevels }
    \cup { JsonObject("bare", [code |-> "fra"]),
           JsonObject("codeless", [code |-> "fra", name |-> "French",
                                   levels |-> << [display_name |-> "Level"] >>]),
           JsonObject("mixed", [code |-> "fra",
                                levels |-> << [display_name |-> "Level"],
                                              [code |-> LevelCodes[2]],
                                              [code |-> <<>>] >>]) }

\* what the get_language call of a translate_compare invocation can end with
LookupAnswers ==
    {Response(200, b) : b \in LanguageConfigs \cup {JsonArray, NotJson}}
    \cup {Response(404, NotJson), Response(422, JsonArray), Response(500, NotJson)}
    \cup {Failure("timeout"), Failure("connect"), Failure("other")}

\* what a per-level translate call can end with
CompareAnswers ==
    { Response(200, JsonObject("bare", [translation |-> "Hallo"])),
      Response(200, JsonObject("timed",
          [translation |-> "Bonjour", transliteration |-> JNull,
           metadata |-> [processing_time_ms |-> "800"]])),
      Response(200, JsonArray),
      Response(500, NotJson),
      Failure("timeout") }

CompareTexts == {<<"H", "i">>, <<" ", "H", "i", "\n">>}
CompareModes == {None, Some(Spoken), Some(Written)}
RequestedLevels ==
    {None} \cup {Some(l) : l \in UNION {[1..n -> RequestCodes] : n \in 0..MaxLevels}}

CompareArgs ==
    [text : CompareTexts, target_language : {"fra"}, source_language : {"eng"},
     mood : {<<"c", "a", "s", "u", "a", "l">>}, mode : CompareModes,
     levels : RequestedLevels]

NoCompareArgs ==
    [text |-> <<>>, target_language |-> "", source_language |-> "", mood |-> <<>>,
     mode |-> None, levels |-> None]

CompareInit ==
    /\ c_pc = "idle"
    /\ c_args = NoCompareArgs
    /\ c_lookup = NoAnswer
    /\ c_codes = <<>>
    /\ c_task = <<>>
    /\ c_outcomes = <<>>
    /\ c_entries = <<>>
    /\ c_order = <<>>
    /\ c_calls = <<>>
    /\ c_out = NoOutcome

\* translate_compare is invoked and awaits levelang.get_language(target_language)
compare_call ==
    /\ c_pc = "idle"
    /\ c_pc' = "lookup"
    /\ c_args' \in CompareArgs
    /\ c_lookup' \in LookupAnswers
    /\ UNCHANGED <<c_codes, c_task, c_outcomes, c_entries, c_order, c_calls, c_out>>
    /\ UNCHANGED <<authVars, toolVars, listVars, clientVars, lifeVars, settingsVars>>

\* the lookup ends: translate_compare returns, raises, or gathers one task
\* per level code
compare_lookup_done ==
    /\ c_pc = "lookup"
    /\ LET plan == compare_after_lookup(c_args, ClientOutcome(c_lookup)) IN
       IF plan.kind = "fanout"
       THEN /\ c_pc' = "gather"
            /\ c_codes' = plan.value
            /\ c_task' = [i \in DOMAIN plan.value |-> "pending"]
            /\ c_out' = c_out
       ELSE /\ c_pc' = "done"
            /\ c_out' = plan
            /\ UNCHANGED <<c_codes, c_task>>
    /\ UNCHANGED <<c_args, c_lookup, c_outcomes, c_entries, c_order, c_calls>>
    /\ UNCHANGED <<authVars, toolVars, listVars, clientVars, lifeVars, settingsVars>>

\* the task of the i-th level ends with `outcome`
task_ends(i, outcome) ==
    /\ c_task' = after_completion(c_task, i, outcome)
    /\ c_outcomes' = (i :> outcome) @@ c_outcomes
    /\ c_entries' = (i :> _translate_at_level(c_codes[i], outcome)) @@ c_entries
    /\ c_order' = Append(c_order, i)

\* the task of the i-th level takes its first step and calls levelang.translate
compare_start(i) ==
    /\ c_pc = "gather"
    /\ i \in DOMAIN c_task
    /\ MayStart(c_task, i)
    /\ LET kwargs == compare_kwargs(c_args, c_codes[i]) IN
       /\ c_calls' = Append(c_calls, kwargs)
       /\ IF AcceptsCall(levelang, kwargs)
          THEN /\ c_task' = [c_task EXCEPT ![i] = "inflight"]
               /\ UNCHANGED <<c_outcomes, c_entries, c_order>>
          ELSE task_ends(i, BindingFailure)
    /\ UNCHANGED <<c_pc, c_args, c_lookup, c_codes, c_out>>
    /\ UNCHANGED <<authVars, toolVars, listVars, clientVars, lifeVars, settingsVars>>

\* the translate call of the i-th level ends and its task with it
compare_complete(i) ==
    /\ c_pc = "gather"
    /\ i \in DOMAIN c_task
    /\ c_task[i] = "inflight"
    /\ \E answer \in CompareAnswers : task_ends(i, ClientOutcome(answer))
    /\ UNCHANGED <<c_pc, c_args, c_lookup, c_codes, c_calls, c_out>>
    /\ UNCHANGED <<authVars, toolVars, listVars, clientVars, lifeVars, settingsVars>>

\* every task has ended: gather returns and the report is formatted
compare_finish ==
    /\ c_pc = "gather"
    /\ AllEnded(c_task)
    /\ c_pc' = "done"
    /\ c_out' = format_comparison(
                    _sanitize_text(c_args.text),
                    Get(ClientOutcome(c_lookup).value.obj, "name", c_args.target_language),
                    c_args.mood,
                    gather_results(c_entries, c_order),
                    c_args.mode)
    /\ UNCHANGED <<c_args, c_lookup, c_codes, c_task, c_outcomes, c_entries, c_order,
                   c_calls>>
    /\ UNCHANGED <<authVars, toolVars, listVars, clientVars, lifeVars, settingsVars>>

\* the invocation is over: its result has gone to the caller
compare_exit ==
    /\ c_pc = "done"
    /\ c_pc' = "idle"
    /\ c_args' = NoCompareArgs
    /\ c_lookup' = NoAnswer
    /\ c_codes' = <<>>
    /\ c_task' = <<>>
    /\ c_outcomes' = <<>>
    /\ c_entries' = <<>>
    /\ c_order' = <<>>
    /\ c_calls' = <<>>
    /\ c_out' = NoOutcome
    /\ UNCHANGED <<authVars, toolVars, listVars, clientVars, lifeVars, settingsVars>>

----------------------------------------------------------------------------
(* client.py: the requests of LevelangClient *)

\* LevelangClient._headers
_headers_always(api_key) ==
    ("Content-Type" :> <<"application/json">>)
    @@ ("Authorization" :> <<"Bearer ">> \o (IF api_key.has THEN <<api_key.value>> ELSE <<>>))
_headers(api_key) ==
    IF api_key.has /\ api_key.value # ""
    THEN ("Content-Type" :> <<"application/json">>)
         @@ ("Authorization" :> <<"Bearer ", api_key.value>>)
    ELSE ("Content-Type" :> <<"application/json">>)

\* settings.api_base_url
BaseUrl == "http://localhost:8000/api/v1"

\* the json= argument of the POST in LevelangClient.translate
translate_json(kwargs) ==
    [text |-> kwargs.text,
     source_language_code |-> kwargs.source_language_code,
     target_language_code |-> kwargs.target_language_code,
     level |-> kwargs.level,
     mood |-> kwargs.mood]

PostRequest(url, headers, json) ==
    [method |-> "POST", url |-> url, headers |-> headers, json |-> json]
GetRequest(url, headers) ==
    [method |-> "GET", url |-> url, headers |-> headers]

\* LEVELANG_API_KEY: unset, empty, or a key
BackendKey == "sk_test_key_123"
ApiKeys == {None, Some(""), Some(BackendKey)}

\* the calls of translate: those the tools make (text, codes, level, mood and
\* mode) and those with the five parameters of the signature
ClientTranslateCalls ==
    {translate_kwargs(a) : a \in TranslateArgs}
    \cup {[k \in TranslateParams |-> translate_kwargs(a)[k]] : a \in TranslateArgs}

LanguageCodes == {"fra", "xxx"}

NoCall == [op |-> "none"]

\* a client constructed from the settings, before its first call
ClientInit ==
    /\ k_api_key \in ApiKeys
    /\ k_call = NoCall
    /\ k_requests = <<>>
    /\ k_result = NoOutcome

\* the methods class LevelangClient defines
ClientMethods ==
    {"__init__", "_headers", "translate", "get_languages", "get_language", "close"}

\* `async with` looks __aenter__ and __aexit__ up on the type of the object
SupportsAsyncWith == {"__aenter__", "__aexit__"} \subseteq ClientMethods

\* what `async with client` ends with on an object without the protocol:
\* TypeError, or AttributeError on interpreters before Python 3.11
ProtocolErrors ==
    { Raised(Exc("TypeError",
          "'LevelangClient' object does not support the asynchronous context manager protocol")),
      Raised(Exc("AttributeError", "__aenter__")) }

\* `async with client as ctx:` around a block that ends normally or raises
client_async_with ==
    /\ \E body \in {"normal", "raises"} :
        IF SupportsAsyncWith
        THEN /\ k_call' = [op |-> "async_with", body |-> body, entered |-> TRUE]
             /\ k_result' = IF body = "raises" THEN Raised(Exc("RuntimeError", "boom"))
                            ELSE Returned(<<>>)
             /\ k_closes' = k_closes + 1
        ELSE /\ k_call' = [op |-> "async_with", body |-> body, entered |-> FALSE]
             /\ k_result' \in ProtocolErrors
             /\ k_closes' = k_closes
    /\ k_requests' = <<>>
    /\ UNCHANGED <<k_api_key, m_transport, m_pc, m_how, m_inv>>
    /\ UNCHANGED <<authVars, toolVars, listVars, cmpVars, settingsVars>>

\* one call of LevelangClient.translate(**kwargs)
client_translate ==
    /\ \E kwargs \in ClientTranslateCalls, answer \in Answers :
        /\ k_call' = [op |-> "translate", kwargs |-> kwargs]
        /\ IF BindsTranslate(kwargs)
           THEN /\ k_requests' = <<PostRequest(<<BaseUrl, "/translate">>,
                                               _headers(k_api_key), translate_json(kwargs))>>
                /\ k_result' = ClientOutcome(answer)
           ELSE /\ k_requests' = <<>>
                /\ k_result' = BindingFailure
    /\ UNCHANGED <<k_api_key, authVars, toolVars, listVars, cmpVars, lifeVars, settingsVars>>

\* one call of LevelangClient.get_languages()
client_get_languages ==
    /\ \E answer \in ListAnswers :
        /\ k_call' = [op |-> "get_languages"]
        /\ k_requests' = <<GetRequest(<<BaseUrl, "/languages/details">>,
                                      _headers(k_api_key))>>
        /\ k_result' = ClientOutcome(answer)
    /\ UNCHANGED <<k_api_key, authVars, toolVars, listVars, cmpVars, lifeVars, settingsVars>>

\* one call of LevelangClient.get_language(code)
client_get_language ==
    /\ \E code \in LanguageCodes, answer \in LookupAnswers :
        /\ k_call' = [op |-> "get_language", code |-> code]
        /\ k_requests' = <<GetRequest(<<BaseUrl, "/languages/", code>>,
                                      _headers(k_api_key))>>
        /\ k_result' = ClientOutcome(answer)
    /\ UNCHANGED <<k_api_key, authVars, toolVars, listVars, cmpVars, lifeVars, settingsVars>>

----------------------------------------------------------------------------
(* __main__.py: main, _run_streamable_http and the shutdown of the client *)

\* the most tool invocations a transport serves in one run
MaxInvocations == 2

Transports == {"stdio", "streamable-http"}

\* whether the cleanup after the transport runs: it is a finally clause
RunsCleanupOnReturn(how) == how = "returned"
RunsCleanup(how) == how \in {"returned", "raised"}

\* main() is entered with the transport of the settings; nothing is served yet
MainInit ==
    /\ m_transport \in Transports
    /\ m_pc = "main"
    /\ m_how = "none"
    /\ m_inv = [i \in 1..MaxInvocations |-> "idle"]
    /\ k_closes = 0

\* a process that is not followed: main() has not been entered
LifeInit ==
    /\ m_transport = "stdio"
    /\ m_pc = "off"
    /\ m_how = "none"
    /\ m_inv = <<>>
    /\ k_closes = 0

\* main() reaches server.serve() or mcp.run(transport="stdio")
main_serve ==
    /\ m_pc = "main"
    /\ m_pc' = "serving"
    /\ UNCHANGED <<k_closes, m_transport, m_how, m_inv>>
    /\ UNCHANGED <<authVars, toolVars, listVars, cmpVars, clientVars, settingsVars>>

\* the transport hands a tool call to its handler
tool_invoke(i) ==
    /\ m_pc = "serving"
    /\ m_inv[i] = "idle"
    /\ m_inv' = [m_inv EXCEPT ![i] = "running"]
    /\ UNCHANGED <<k_closes, m_transport, m_pc, m_how>>
    /\ UNCHANGED <<authVars, toolVars, listVars, cmpVars, clientVars, settingsVars>>

\* a running tool invocation awaits a call of the backend client
tool_backend_call(i) ==
    /\ m_inv[i] = "running"
    /\ m_inv' = [m_inv EXCEPT ![i] = "awaiting"]
    /\ UNCHANGED <<k_closes, m_transport, m_pc, m_how>>
    /\ UNCHANGED <<authVars, toolVars, listVars, cmpVars, clientVars, settingsVars>>

\* the awaited call ends and the invocation returns its string
tool_return(i) ==
    /\ m_inv[i] = "awaiting"
    /\ m_inv' = [m_inv EXCEPT ![i] = "finished"]
    /\ UNCHANGED <<k_closes, m_transport, m_pc, m_how>>
    /\ UNCHANGED <<authVars, toolVars, listVars, cmpVars, clientVars, settingsVars>>

\* server.serve() or mcp.run() ends, by returning or by raising; the event
\* loop of the transport has by then ended or cancelled the tasks it ran
transport_stops ==
    /\ m_pc = "serving"
    /\ m_pc' = "stopped"
    /\ m_how' \in {"returned", "raised"}
    /\ m_inv' = [i \in DOMAIN m_inv |->
                    IF m_inv[i] \in {"running", "awaiting"} THEN "cancelled" ELSE m_inv[i]]
    /\ UNCHANGED <<k_closes, m_transport>>
    /\ UNCHANGED <<authVars, toolVars, listVars, cmpVars, clientVars, settingsVars>>

\* the finally clause: await levelang.close(), or anyio.run(levelang.close)
main_cleanup ==
    /\ m_pc = "stopped"
    /\ IF RunsCleanup(m_how)
       THEN k_closes' = k_closes + 1 /\ m_pc' = "closed"
       ELSE k_closes' = k_closes /\ m_pc' = "exited"
    /\ UNCHANGED <<m_transport, m_how, m_inv>>
    /\ UNCHANGED <<authVars, toolVars, listVars, cmpVars, clientVars, settingsVars>>

\* main() returns, or the exception of the transport leaves it
main_exit ==
    /\ m_pc = "closed"
    /\ m_pc' = "exited"
    /\ UNCHANGED <<k_closes, m_transport, m_how, m_inv>>
    /\ UNCHANGED <<authVars, toolVars, listVars, cmpVars, clientVars, settingsVars>>

----------------------------------------------------------------------------
(* config.py: Settings, get_settings, reset_settings *)

\* the environment variables get_settings reads
EnvNames ==
    {"LEVELANG_API_BASE_URL", "LEVELANG_API_KEY", "MCP_TRANSPORT", "MCP_HOST",
     "MCP_PORT", "MCP_API_KEYS", "LOG_LEVEL", "LOG_FORMAT"}

\* os.environ.get(name, default)
environ_get(env, name, default) ==
    IF env[name].has THEN env[name].value ELSE default

\* int() of the port texts the model uses
int(text) ==
    CASE text = "8463" -> 8463
      [] text = "9000" -> 9000

\* Settings(...) of get_settings: every field from the environment
load_settings(env) ==
    [ api_base_url  |-> environ_get(env, "LEVELANG_API_BASE_URL", BaseUrl),
      api_key       |-> env["LEVELANG_API_KEY"],
      mcp_transport |-> environ_get(env, "MCP_TRANSPORT", "stdio"),
      mcp_host      |-> environ_get(env, "MCP_HOST", "127.0.0.1"),
      mcp_port      |-> int(environ_get(env, "MCP_PORT", "8463")),
      mcp_api_keys  |-> _parse_api_keys(env["MCP_API_KEYS"]),
      log_level     |-> environ_get(env, "LOG_LEVEL", "INFO"),
      log_format    |-> environ_get(env, "LOG_FORMAT", "auto") ]

\* `_settings is not None`
IsLoadedNever(settings) == FALSE
IsLoaded(settings) == settings.has

\* an environment in which none of the names is set
UnsetEnvironment == [name \in EnvNames |-> None]

\* values the environment gives LEVELANG_API_KEY and MCP_API_KEYS
EnvApiKeys == {None, Some(BackendKey)}
EnvKeyLists ==
    { None,
      Some(<<" ">> \o KeyA \o <<" ", ",", ",", " ">> \o KeyB \o <<",">>) }
EnvValues(name) == IF name = "LEVELANG_API_KEY" THEN EnvApiKeys ELSE EnvKeyLists
ChangedNames == {"LEVELANG_API_KEY", "MCP_API_KEYS"}

Environments ==
    { [UnsetEnvironment EXCEPT !["LEVELANG_API_KEY"] = k, !["MCP_API_KEYS"] = l] :
        k \in EnvApiKeys, l \in EnvKeyLists }

\* server.py has been imported: `settings = get_settings()` has loaded the
\* settings from the environment of the start
SettingsInit ==
    /\ s_env \in Environments
    /\ s_settings = Some(load_settings(s_env))
    /\ s_op = "none"
    /\ s_got = load_settings(s_env)

\* a process started with none of the names set
SettingsUnset == SettingsInit /\ s_env = UnsetEnvironment

\* LevelangClient() and add_middleware(APIKeyAuthMiddleware, valid_keys=
\* settings.mcp_api_keys) take their values from the loaded settings
ConstructedFromSettings ==
    /\ k_api_key = s_settings.value.api_key
    /\ valid_keys = s_settings.value.mcp_api_keys

\* the environment changes: os.environ[name] = value, or del os.environ[name]
setenv ==
    /\ \E name \in ChangedNames :
          \E value \in EnvValues(name) :
              s_env' = [s_env EXCEPT ![name] = value]
    /\ s_op' = "setenv"
    /\ UNCHANGED <<s_settings, s_got>>
    /\ UNCHANGED <<authVars, toolVars, listVars, cmpVars, clientVars, lifeVars>>

\* one call of get_settings()
get_settings ==
    /\ s_settings' = IF IsLoaded(s_settings) THEN s_settings
                     ELSE Some(load_settings(s_env))
    /\ s_got' = s_settings'.value
    /\ s_op' = "get_settings"
    /\ UNCHANGED s_env
    /\ UNCHANGED <<authVars, toolVars, listVars, cmpVars, clientVars, lifeVars>>

\* one call of reset_settings()
reset_settings ==
    /\ s_settings' = None
    /\ s_op' = "reset_settings"
    /\ UNCHANGED <<s_env, s_got>>
    /\ UNCHANGED <<authVars, toolVars, listVars, cmpVars, clientVars, lifeVars>>

\* requests the server handles while the settings are reset and reloaded
SettingsRequests ==
    { [path |-> "/mcp", method |-> "POST", client |-> [has |-> TRUE, host |-> "10.0.0.7"],
       header |-> h] : h \in {None, Some(Bearer \o Spaces(1) \o KeyA)} }

----------------------------------------------------------------------------
(* Specifications *)

\* the HTTP transport serves the tools of server.py with its own client
InitAuth == AuthInit /\ ToolInit /\ ListInit /\ CompareInit /\ ClientInit /\ LifeInit /\ SettingsUnset /\ k_api_key = None /\ levelang = "LevelangClient"
NextAuth == Dispatch
SpecAuth == InitAuth /\ [][NextAuth]_vars

\* the translate tool alone, the middleware as constructed
InitTranslate == AuthInit /\ ToolInit /\ ListInit /\ CompareInit /\ ClientInit /\ LifeInit /\ SettingsUnset /\ k_api_key = None
NextTranslate == translate_call \/ translate_resume \/ translate_exit
SpecTranslate == InitTranslate /\ [][NextTranslate]_vars

\* the list_languages tool alone
InitLanguages == AuthInit /\ ToolInit /\ ListInit /\ CompareInit /\ ClientInit /\ LifeInit /\ SettingsUnset /\ k_api_key = None
NextLanguages == list_languages_call \/ list_languages_resume \/ list_languages_exit
SpecLanguages == InitLanguages /\ [][NextLanguages]_vars

\* the translate_compare tool alone
InitCompare == AuthInit /\ ToolInit /\ ListInit /\ CompareInit /\ ClientInit /\ LifeInit /\ SettingsUnset /\ k_api_key = None /\ valid_keys = {}
NextCompare ==
    \/ compare_call
    \/ compare_lookup_done
    \/ \E i \in 1..(MaxLevels + 1) : compare_start(i) \/ compare_complete(i)
    \/ compare_finish
    \/ compare_exit
SpecCompare == InitCompare /\ [][NextCompare]_vars

\* translate_compare when the event loop gives every task that can start its
\* first step and every backend call ends
SpecCompareFair ==
    /\ SpecCompare
    /\ WF_vars(compare_lookup_done)
    /\ \A i \in 1..(MaxLevels + 1) :
          WF_vars(compare_start(i)) /\ WF_vars(compare_complete(i))

\* a LevelangClient and its calls alone
InitClient ==
    /\ AuthInit /\ ToolInit /\ ListInit /\ CompareInit /\ ClientInit /\ LifeInit /\ SettingsUnset
    /\ valid_keys = {} /\ levelang = "LevelangClient"
NextClient ==
    \/ client_translate
    \/ client_get_languages
    \/ client_get_language
    \/ client_async_with
SpecClient == InitClient /\ [][NextClient]_vars

\* the two tools that send the caller's text, one invocation at a time
InitSanitize ==
    /\ AuthInit /\ ToolInit /\ ListInit /\ CompareInit /\ ClientInit /\ LifeInit /\ SettingsUnset
    /\ k_api_key = None /\ valid_keys = {}
NextSanitize ==
    \/ c_pc = "idle" /\ NextTranslate
    \/ t_pc = "idle" /\ NextCompare
SpecSanitize == InitSanitize /\ [][NextSanitize]_vars

\* the settings cache, with a constructed client and middleware at work
InitSettings ==
    /\ AuthInit /\ ToolInit /\ ListInit /\ CompareInit /\ ClientInit /\ LifeInit
    /\ SettingsInit /\ ConstructedFromSettings /\ levelang = "LevelangClient"
NextSettings ==
    \/ setenv
    \/ get_settings
    \/ reset_settings
    \/ DispatchAmong(SettingsRequests)
    \/ client_get_languages
SpecSettings == InitSettings /\ [][NextSettings]_vars

\* one run of the process, from main() to its exit
InitLifecycle ==
    /\ AuthInit /\ ToolInit /\ ListInit /\ CompareInit /\ ClientInit /\ MainInit /\ SettingsUnset
    /\ valid_keys = {} /\ levelang = "LevelangClient" /\ k_api_key = None
NextLifecycle ==
    \/ main_serve
    \/ \E i \in 1..MaxInvocations :
          tool_invoke(i) \/ tool_backend_call(i) \/ tool_return(i)
    \/ transport_stops
    \/ main_cleanup
    \/ main_exit
SpecLifecycle == InitLifecycle /\ [][NextLifecycle]_vars

----------------------------------------------------------------------------
(* Claims about the middleware, checked under SpecAuth *)

Handled == branch # "none"
Guarded == Handled /\ valid_keys # {} /\ request.path \notin _PUBLIC_PATHS

BearerSp == Bearer \o <<" ">>

\* the header is "Bearer " followed by v
IsBearerWith(h, v) == h.has /\ h.value = BearerSp \o v

\* the text after "Bearer ", for a header that starts with "Bearer "
StartsBearerSp(h) ==
    h.has /\ Len(h.value) >= Len(BearerSp) /\ SubSeq(h.value, 1, Len(BearerSp)) = BearerSp
AfterBearerSp(h) == SubSeq(h.value, Len(BearerSp) + 1, Len(h.value))

\* the text before the first space: the whole header when it has no space
SchemeOf(h) == split_once(h.value, " ")[1]
HasSpace(h) == \E i \in 1..Len(h.value) : h.value[i] = " "

ClientIp == IF request.client.has THEN request.client.host ELSE "unknown"

\* C1: with a non-empty key set and a non-public path, the request is
\* forwarded to call_next if and only if its Authorization header is exactly
\* "Bearer " followed by a member of the key set; otherwise call_next is not
\* awaited and the middleware answers 401.
C1_ForwardIffBearerKey ==
    Guarded =>
        LET good == \E k \in valid_keys : IsBearerWith(request.header, k) IN
        /\ forwarded <=> good
        /\ ~good => (~forwarded /\ response.status = 401 /\ response.by = "middleware")

C1_Witness ==
    /\ Guarded
    /\ valid_keys = {KeyA, KeyB}
    /\ request.header = Some(BearerSp \o KeyB)
    /\ forwarded
    /\ response.by = "app"

\* C2: with an empty key set every request is forwarded, whatever its path,
\* method and Authorization header, and the middleware never answers 401.
C2_DisabledForwardsAll ==
    (Handled /\ valid_keys = {}) =>
        (forwarded /\ response.by = "app" /\ response \in InnerResponses)

C2_Witness ==
    /\ Handled
    /\ valid_keys = {}
    /\ request.path = "/mcp"
    /\ request.method = "POST"
    /\ request.header = Some(<<"B", "a", "s", "i", "c">> \o <<" ">> \o KeyA)
    /\ forwarded

\* C3: a request to a public path is forwarded for every key set and every
\* Authorization header, and the public-path check decides before any key
\* check does.
C3_PublicPathForwards ==
    (Handled /\ request.path \in _PUBLIC_PATHS) =>
        (forwarded /\ branch = "public" /\ response.by = "app" /\ emitted = <<>>)

C3_Witness ==
    /\ Handled
    /\ request.path = "/health"
    /\ valid_keys = {KeyA}
    /\ request.header = Some(BearerSp \o KeyB)
    /\ forwarded

\* C4: with a non-empty key set and a non-public path, a request without an
\* Authorization header gets 401 {"error": "Missing Authorization header"},
\* and a header "Bearer <value>" whose non-empty value is no member of the
\* key set gets 401 {"error": "Invalid API key"}.
C4_MissingAndInvalidKey ==
    Guarded =>
        /\ ~request.header.has => (~forwarded /\ response = Reject(ERR_MISSING))
        /\ ( /\ StartsBearerSp(request.header)
             /\ AfterBearerSp(request.header) # <<>>
             /\ AfterBearerSp(request.header) \notin valid_keys )
           => (~forwarded /\ response = Reject(ERR_INVALID))

C4_Witness ==
    /\ Guarded
    /\ valid_keys = {KeyA}
    /\ request.header = Some(BearerSp \o KeyB)
    /\ response = Reject(ERR_INVALID)

\* C5 (as stated): with a non-empty key set and a non-public path, every
\* present Authorization header whose scheme is not exactly "Bearer", or
\* that has no space separator, gets the 401 "Invalid Authorization header
\* format" answer.
C5_PresentHeaderMalformed ==
    (Guarded /\ request.header.has
        /\ (SchemeOf(request.header) # Bearer \/ ~HasSpace(request.header)))
    => (~forwarded /\ response = Reject(ERR_MALFORMED))

\* C5 (amended): the same for every present header that is not empty; an
\* empty header value is answered as a missing header.
C5_NonEmptyHeaderMalformed ==
    (Guarded /\ request.header.has
        /\ (SchemeOf(request.header) # Bearer \/ ~HasSpace(request.header)))
    => /\ ~forwarded
       /\ request.header.value # <<>> => response = Reject(ERR_MALFORMED)
       /\ request.header.value = <<>> => response = Reject(ERR_MISSING)

C5_Witness ==
    /\ Guarded
    /\ KeyA \in valid_keys
    /\ request.header = Some(<<"b", "e", "a", "r", "e", "r">> \o <<" ">> \o KeyA)
    /\ response = Reject(ERR_MALFORMED)

\* the header is "Bearer " followed by nothing, or "Bearer" followed by two
\* or more spaces and a value
EmptyOrOverSpaced(h) ==
    StartsBearerSp(h) /\ (AfterBearerSp(h) = <<>> \/ Head(AfterBearerSp(h)) = " ")

\* C6 (as stated): with a non-empty key set and a non-public path, the
\* header "Bearer " with an empty value, and a header with more than one
\* space between scheme and value, are answered as malformed: 401, the
\* "Invalid Authorization header format" body and the 'malformed' warning.
C6_EmptyValueMalformed ==
    (Guarded /\ EmptyOrOverSpaced(request.header))
    => /\ ~forwarded
       /\ response = Reject(ERR_MALFORMED)
       /\ emitted = <<Warning(MSG_MALFORMED, <<ClientIp>>)>>

\* C6 (amended): such a header is rejected with 401, as an invalid key: the
\* body is {"error": "Invalid API key"} and the warning is the 'invalid API
\* key' one.  The key set is the one parsed from MCP_API_KEYS.
C6_EmptyValueInvalidKey ==
    (Guarded /\ EmptyOrOverSpaced(request.header))
    => /\ ~forwarded
       /\ response = Reject(ERR_INVALID)
       /\ emitted = <<Warning(MSG_INVALID, <<ClientIp>>)>>

C6_Witness ==
    /\ Guarded
    /\ request.header = Some(BearerSp)
    /\ branch = "invalid"
    /\ response.status = 401

Rejections == {"missing", "malformed", "invalid"}

\* C7: two rejected requests of the same client in the same rejection
\* category that differ only in the presented header value get identical
\* log entries and identical response bodies: the credential is in neither.
C7_CredentialNotEchoed ==
    [][ ( /\ branch \in Rejections
          /\ branch' = branch
          /\ request'.client = request.client
          /\ request'.path = request.path
          /\ request'.method = request.method )
        => (emitted' = emitted /\ response' = response) ]_vars

C7_Witness ==
    /\ branch = "invalid"
    /\ request.header = Some(BearerSp \o KeyB)
    /\ emitted = <<Warning(MSG_INVALID, <<"10.0.0.7">>)>>
    /\ response = Reject(ERR_INVALID)

----------------------------------------------------------------------------
(* Claims about the translate tool, checked under SpecTranslate *)

\* C8: the translate tool never raises to its caller: whatever the backend
\* call and the formatting end with, the invocation ends by returning a
\* string.
C8_TranslateNeverRaises ==
    t_pc = "done" => t_out.kind = "return"

\* C9: when the backend answers POST /translate with a 2xx response that
\* carries a Translation Result, a translate invocation that goes through
\* the repository's LevelangClient returns format_translation of that
\* result, with or without a mode argument.
C9_SuccessReturnsFormatted ==
    ( /\ t_pc = "done"
      /\ levelang = "LevelangClient"
      /\ t_answer.kind = "response"
      /\ Is2xx(t_answer.status)
      /\ t_answer.body \in TranslationBodies )
    => t_out = format_translation(t_answer.body)

\* the message the claim gives for a failure, by the class of the failure
C10_StatusMessage(status, body) ==
    IF status = 429 THEN <<MSG_RATE_LIMIT>>
    ELSE IF status >= 500 THEN <<MSG_UNAVAILABLE>>
    ELSE <<"Backend error (HTTP ">> \o str_int(status) \o <<"): ", body.text>>

\* C10: on a failed backend call the returned message is fixed by the class
\* of the failure: 422 gives "Invalid request: " and the backend detail, 429
\* the rate-limit message, a status from 500 the "temporarily unavailable"
\* message, another status a message with the status code and the raw body,
\* a timeout and a connect failure their fixed messages, and any other
\* exception "Unexpected error: " and the exception text.
C10_FailureMessageByClass ==
    (t_pc = "done" /\ t_sent.sent /\ ClientOutcome(t_answer).kind = "raise") =>
        LET e == ClientOutcome(t_answer).exc IN
        /\ t_out.kind = "return"
        /\ (e.type = "HTTPStatusError" /\ e.status = 422) =>
              /\ Head(t_out.value) = "Invalid request: "
              /\ (e.body.type = "object" /\ "detail" \in DOMAIN e.body.obj)
                   => t_out.value = <<"Invalid request: ", e.body.obj["detail"]>>
        /\ (e.type = "HTTPStatusError" /\ e.status # 422) =>
              t_out.value = C10_StatusMessage(e.status, e.body)
        /\ e.type = "TimeoutException" => t_out.value = <<MSG_TIMEOUT>>
        /\ e.type = "ConnectError" => t_out.value = <<MSG_CANNOT_REACH>>
        /\ e.type \notin {"HTTPStatusError", "TimeoutException", "ConnectError"} =>
              t_out.value = <<"Unexpected error: ", e.text>>

\* C26: no backend call is retried, and each invocation of translate issues
\* exactly one POST /translate, whether the call succeeds or fails.
C26_TranslateIssuesOnePost ==
    t_pc = "done" =>
        /\ t_sent.sent
        /\ t_sent.kwargs.text = strip(t_args.text)
        /\ t_sent.kwargs.level = t_args.level

----------------------------------------------------------------------------
(* Claims about the list_languages tool, checked under SpecLanguages *)

\* C11: list_languages never raises; a status below 500 gives "Backend error
\* (HTTP <status>): <body>", a status from 500 the fixed "temporarily
\* unavailable" message, a timeout and a connect failure each their own
\* fixed message, and any other exception, a formatting failure included,
\* "Unexpected error: " and the exception text.
C11_ListLanguagesMapping ==
    l_pc = "done" =>
        LET o == ClientOutcome(l_answer)
            e == IF o.kind = "raise" THEN o.exc ELSE format_language_list(o.value).exc
            failed == o.kind = "raise" \/ format_language_list(o.value).kind = "raise"
        IN  /\ l_out.kind = "return"
            /\ failed =>
                /\ (e.type = "HTTPStatusError" /\ e.status < 500) =>
                      l_out.value = <<"Backend error (HTTP ">> \o str_int(e.status)
                                       \o <<"): ", e.body.text>>
                /\ (e.type = "HTTPStatusError" /\ e.status >= 500) =>
                      l_out.value = <<MSG_LANG_UNAVAILABLE>>
                /\ e.type = "TimeoutException" => l_out.value = <<MSG_LANG_TIMEOUT>>
                /\ e.type = "ConnectError" => l_out.value = <<MSG_CANNOT_REACH>>
                /\ e.type \notin {"HTTPStatusError", "TimeoutException", "ConnectError"} =>
                      l_out.value = <<"Unexpected error: ", e.text>>

C11_Witness ==
    /\ l_pc = "done"
    /\ l_answer = Response(422, JsonArray)
    /\ l_out = Returned(<<"Backend error (HTTP ", "4", "2", "2", "): ", "[]">>)

----------------------------------------------------------------------------
(* Claims about the translate_compare tool, checked under SpecCompare *)

\* get_language returned a JSON object
LookupSucceeded ==
    /\ c_lookup.kind = "response"
    /\ Is2xx(c_lookup.status)
    /\ c_lookup.body.type = "object"

\* the level descriptors of the language, and the codes they carry
ReportedLevels == Get(c_lookup.body.obj, "levels", <<>>)
AvailableCodes == available_codes_of(ReportedLevels)

\* the requested codes the language does not have, in the caller's order
RECURSIVE NotAmong(_, _)
NotAmong(requested, codes) ==
    IF requested = <<>> THEN <<>>
    ELSE (IF \E i \in DOMAIN codes : codes[i] = Head(requested)
          THEN <<>> ELSE <<Head(requested)>>)
         \o NotAmong(Tail(requested), codes)

EveryRequestedAvailable ==
    c_args.levels.has => NotAmong(c_args.levels.value, AvailableCodes) = <<>>

\* the three preconditions of the fan-out
PassedValidation ==
    LookupSucceeded /\ ReportedLevels # <<>> /\ EveryRequestedAvailable

\* C12: translate_compare issues no per-level translate call unless the
\* lookup succeeded, the language reports at least one level and every
\* requested code is available; on each abort path it ends with zero calls.
C12_NoCallUnlessValidated ==
    /\ c_calls # <<>> => PassedValidation
    /\ (c_pc = "done" /\ ~PassedValidation) => c_calls = <<>>

C12_Witness ==
    /\ c_pc = "done"
    /\ LookupSucceeded
    /\ c_args.levels = Some(<<LevelCodes[1], UnknownCodes[1]>>)
    /\ InSeq(LevelCodes[1], AvailableCodes)
    /\ c_calls = <<>>
    /\ c_out.kind = "return"

\* C13: with explicit level codes of which at least one is not available,
\* translate_compare returns one message naming every invalid requested
\* code, in the caller's order, and the full list of available codes.
C13_InvalidLevelsMessage ==
    (/\ c_pc = "done"
     /\ LookupSucceeded
     /\ ReportedLevels # <<>>
     /\ c_args.levels.has
     /\ ~EveryRequestedAvailable)
    => c_out = Returned(<<"Invalid level(s): ">>
                        \o join_codes(NotAmong(c_args.levels.value, AvailableCodes))
                        \o <<". Available levels for '", c_args.target_language, "': ">>
                        \o join_codes(AvailableCodes))

C13_Witness ==
    /\ c_pc = "done"
    /\ c_args.levels = Some(<<UnknownCodes[2], UnknownCodes[1]>>)
    /\ AvailableCodes = <<LevelCodes[1], LevelCodes[2]>>
    /\ c_out.value = <<"Invalid level(s): ", "c", "2", ", ", "H", "S", "K", "1",
                       ". Available levels for '", "fra", "': ",
                       "l", "o", ", ", "m", "i", "d">>

\* C14: past validation the effective level list is the available codes in
\* the backend's order when levels is None, else the requested codes in the
\* caller's order; the calls made are one per element of that list, in its
\* order, and by the end exactly one for each element.
C14_OneCallPerEffectiveLevel ==
    (PassedValidation /\ c_pc \in {"gather", "done"}) =>
        /\ c_codes = IF c_args.levels.has THEN c_args.levels.value ELSE AvailableCodes
        /\ Len(c_calls) <= Len(c_codes)
        /\ \A i \in DOMAIN c_calls : c_calls[i].level = c_codes[i]
        /\ Len(c_calls) = Cardinality({i \in DOMAIN c_task : c_task[i] # "pending"})
        /\ c_pc = "done" => Len(c_calls) = Len(c_codes)

C14_Witness ==
    /\ c_pc = "done"
    /\ c_args.levels = Some(<<LevelCodes[2], LevelCodes[1]>>)
    /\ AvailableCodes = <<LevelCodes[1], LevelCodes[2]>>
    /\ Len(c_calls) = 2
    /\ c_calls[1].level = LevelCodes[2]
    /\ c_calls[2].level = LevelCodes[1]
    /\ \A i \in 1..2 : c_outcomes[i].kind = "return"
    /\ c_out.kind = "return"

RECURSIVE Count(_, _)
Count(pieces, piece) ==
    IF pieces = <<>> THEN 0
    ELSE (IF Head(pieces) = piece THEN 1 ELSE 0) + Count(Tail(pieces), piece)

Ended == {i \in DOMAIN c_task : c_task[i] = "done"}
Failed == {i \in Ended : c_outcomes[i].kind = "raise"}
Succeeded == {i \in Ended : c_outcomes[i].kind = "return"}

\* C15: a per-level call that fails leaves its siblings as they are and does
\* not end the request: a task ends only with its own call, every ended task
\* has its entry (the result of a call that returned, the error of a call
\* that raised), and the report of calls that each raised or returned a
\* Translation Result object has one heading per effective level, an error
\* line per failed call and the translation of each call that succeeded.
C15_FailureIsolated ==
    c_pc \in {"gather", "done"} =>
        /\ Ended = DOMAIN c_outcomes
        /\ Ended = DOMAIN c_entries
        /\ Ended = {c_order[k] : k \in DOMAIN c_order}
        /\ \A i \in Failed :
              c_entries[i] = [level |-> c_codes[i], ok |-> FALSE,
                              error |-> c_outcomes[i].exc.text]
        /\ \A i \in Succeeded :
              c_entries[i] = [level |-> c_codes[i], ok |-> TRUE,
                              result |-> c_outcomes[i].value]
        /\ (/\ c_pc = "done"
            /\ PassedValidation
            /\ \A i \in Succeeded : c_outcomes[i].value.type = "object")
           => /\ c_out.kind = "return"
              /\ Count(c_out.value, "-- ") = Len(c_codes)
              /\ Count(c_out.value, "  Error: ") = Cardinality(Failed)
              /\ \A i \in Succeeded :
                    Count(c_out.value,
                          Get(c_outcomes[i].value.obj, "translation", "")) >= 1

C15_Witness ==
    /\ c_pc = "done"
    /\ Len(c_codes) = 2
    /\ c_order = <<1, 2>>
    /\ c_outcomes[1].kind = "raise"
    /\ c_outcomes[1].exc.type = "TimeoutException"
    /\ c_outcomes[2].kind = "return"
    /\ c_out.kind = "return"
    /\ Count(c_out.value, "  Error: ") = 1
    /\ Count(c_out.value, "Bonjour") = 1

\* the entry of the i-th effective level: what its own call ended with
EntryOfLevel(i) == _translate_at_level(c_codes[i], c_outcomes[i])

\* C16: whatever the order in which the calls end, the i-th entry of the
\* list the report is made from is the outcome of the call for the i-th code
\* of the effective level list, and the report is the one formatted from
\* the entries in that order.
C16_EntriesInLevelOrder ==
    /\ c_pc \in {"gather", "done"} =>
          \A i \in Ended : c_entries[i].level = c_codes[i]
    /\ (c_pc = "done" /\ PassedValidation) =>
          /\ gather_results(c_entries, c_order) = [i \in DOMAIN c_codes |-> EntryOfLevel(i)]
          /\ c_out = format_comparison(
                         strip(c_args.text),
                         Get(c_lookup.body.obj, "name", c_args.target_language),
                         c_args.mood,
                         [i \in DOMAIN c_codes |-> EntryOfLevel(i)],
                         c_args.mode)

C16_Witness ==
    /\ c_pc = "done"
    /\ c_order = <<2, 1>>
    /\ c_codes = <<LevelCodes[1], LevelCodes[2]>>
    /\ c_outcomes[1].kind = "return"
    /\ c_outcomes[2].kind = "raise"
    /\ c_out.kind = "return"
    /\ \E k \in DOMAIN c_out.value :
          /\ SubSeq(c_out.value, k, k + 3) = <<"-- ", "L", "o", " --">>
          /\ \E m \in (k + 1)..Len(c_out.value) :
                SubSeq(c_out.value, m, m + 4) = <<"-- ", "M", "i", "d", " --">>

C18_CompareNeverRaises ==
    c_pc = "done" => c_out.kind = "return"

\* C24: the middleware writes exactly one warning-level log entry, carrying
\* the client address, for each request it rejects (missing, malformed or
\* invalid key), and none for a request it lets through (valid key, public
\* path, auth disabled).
C24_OneWarningPerRejection ==
    Handled =>
        /\ ~forwarded =>
              /\ response.status = 401
              /\ Len(emitted) = 1
              /\ emitted[1].level = "WARNING"
              /\ emitted[1].msg \in {MSG_MISSING, MSG_MALFORMED, MSG_INVALID}
              /\ \E n \in DOMAIN emitted[1].args : emitted[1].args[n] = ClientIp
        /\ forwarded => emitted = <<>>

C24_Witness ==
    /\ Handled
    /\ branch = "malformed"
    /\ request.client = [has |-> TRUE, host |-> "10.0.0.7"]
    /\ emitted = <<Warning(MSG_MALFORMED, <<"10.0.0.7">>)>>

C24_WitnessAllowed ==
    /\ Handled
    /\ branch = "public"
    /\ valid_keys # {}
    /\ emitted = <<>>

\* C25: every entry of the fan-out has exactly one of result and error,
\* in keeping with its ok flag (ok true: result and no error; ok false:
\* error and no result), and its level is the code its call was issued for.
C25_EntryWellFormed ==
    c_pc \in {"gather", "done"} =>
        \A i \in DOMAIN c_entries :
            LET entry == c_entries[i] IN
            /\ {"level", "ok"} \subseteq DOMAIN entry
            /\ ("result" \in DOMAIN entry) # ("error" \in DOMAIN entry)
            /\ entry.ok <=> "result" \in DOMAIN entry
            /\ ~entry.ok <=> "error" \in DOMAIN entry
            /\ entry.level = c_codes[i]
            /\ \E n \in DOMAIN c_calls :
                  c_calls[n].level = entry.level /\ c_calls[n].level = c_codes[i]

C25_Witness ==
    /\ c_pc = "done"
    /\ DOMAIN c_entries = {1, 2}
    /\ c_entries[1] = [level |-> LevelCodes[2], ok |-> FALSE, error |-> "timeout"]
    /\ c_entries[2].ok
    /\ c_entries[2].level = LevelCodes[1]
    /\ DOMAIN c_entries[2] = {"level", "ok", "result"}

\* C27: translate_compare ends its fan-out only when every per-level call
\* has ended, as a result or as a captured error, never with a call still
\* in flight; and when every backend call ends, every invocation ends.
\* The last conjuncts: a running invocation reaches the point where the
\* lookup has ended it or every task of the gather has ended, and from that
\* point its only step is the return.
EveryTaskEnded == \A i \in DOMAIN c_task : c_task[i] = "done"

NotFoundMessage ==
    <<"Language '", c_args.target_language,
      "' not found. Use list_languages to see available codes.">>

\* C23: a failed lookup of translate_compare is reported by cause: 404 as
\* "not found" with the requested code, a message no other failure gets; any
\* other HTTP status as "Backend error (HTTP <status>): <body>"; a connect
\* failure as "Cannot reach ..."; a timeout as "... timed out ..."; any
\* other exception as "Unexpected error: " and its text.
C23_LookupFailureByCause ==
    (c_pc = "done" /\ ClientOutcome(c_lookup).kind = "raise") =>
        LET err == ClientOutcome(c_lookup).exc IN
        /\ c_calls = <<>>
        /\ c_out.kind = "return"
        /\ (c_out.value = NotFoundMessage)
           <=> (err.type = "HTTPStatusError" /\ err.status = 404)
        /\ (err.type = "HTTPStatusError" /\ err.status # 404) =>
              c_out.value = <<"Backend error (HTTP ">> \o str_int(err.status)
                               \o <<"): ", err.body.text>>
        /\ err.type = "ConnectError" => c_out.value = <<MSG_CANNOT_REACH>>
        /\ err.type = "TimeoutException" =>
              c_out.value = <<"Request timed out while fetching language details.">>
        /\ err.type \notin {"HTTPStatusError", "ConnectError", "TimeoutException"} =>
              c_out.value = <<"Unexpected error: ", err.text>>

C23_Witness ==
    /\ c_pc = "done"
    /\ c_lookup = Response(404, NotJson)
    /\ c_out = Returned(<<"Language '", "fra",
                          "' not found. Use list_languages to see available codes.">>)

----------------------------------------------------------------------------
(* Claims about LevelangClient, checked under SpecClient *)

KeyConfigured == k_api_key.has /\ k_api_key.value # ""

\* C19: with a backend key K configured every request of translate,
\* get_languages and get_language carries Authorization: Bearer K; with no
\* key, unset or empty, no request carries an Authorization header.
C19_AuthorizationIffKey ==
    \A n \in DOMAIN k_requests :
        LET headers == k_requests[n].headers IN
        IF KeyConfigured
        THEN /\ "Authorization" \in DOMAIN headers
             /\ headers["Authorization"] = <<"Bearer ", k_api_key.value>>
        ELSE "Authorization" \notin DOMAIN headers

C19_Witness ==
    /\ k_api_key = Some(BackendKey)
    /\ k_call.op = "translate"
    /\ Len(k_requests) = 1
    /\ k_requests[1].method = "POST"
    /\ k_requests[1].headers["Authorization"] = <<"Bearer ", "sk_test_key_123">>

\* C20: a call of LevelangClient.translate, with or without a mode, issues
\* one POST /translate whose JSON body has text, source_language_code,
\* target_language_code, level and mood, and has mode exactly when a
\* non-null mode was supplied.
C20_ModeReachesBody ==
    k_call.op = "translate" =>
        /\ Len(k_requests) = 1
        /\ k_requests[1].method = "POST"
        /\ k_requests[1].url = <<BaseUrl, "/translate">>
        /\ TranslateParams \subseteq DOMAIN k_requests[1].json
        /\ \A f \in TranslateParams : k_requests[1].json[f] = k_call.kwargs[f]
        /\ ("mode" \in DOMAIN k_requests[1].json)
           <=> ("mode" \in DOMAIN k_call.kwargs /\ k_call.kwargs["mode"] # NoMode)
        /\ ("mode" \in DOMAIN k_requests[1].json)
           => k_requests[1].json["mode"] = k_call.kwargs["mode"]

\* C22: `async with client` yields the client itself and leaving the block
\* awaits close exactly once, whether the block ends normally or raises.
C22_AsyncWithClosesOnce ==
    k_call.op = "async_with" =>
        /\ k_call.entered
        /\ k_closes = 1
        /\ k_call.body = "normal" => k_result.kind = "return"
        /\ k_call.body = "raises" => k_result.exc.type = "RuntimeError"

----------------------------------------------------------------------------
(* Claims about the shutdown of the process, checked under SpecLifecycle *)

----------------------------------------------------------------------------
(* Claims about the settings *)

\* C28: once loaded, the settings stay the same value: a get_settings() that
\* finds them loaded returns them, and nothing but reset_settings() changes
\* them, whatever the environment has become; the first get_settings() after
\* a reset loads them from the environment of that moment. The backend key
\* of the constructed client and the valid keys of the constructed
\* middleware never change, not by a reset, a reload or a request.
C28_SettingsCachedUntilReset ==
    /\ []((s_settings.has /\ s_op = "get_settings") => s_got = s_settings.value)
    /\ [][(s_settings.has /\ s_op' # "reset_settings") =>
             (s_settings' = s_settings /\ s_got' = s_got)]_vars
    /\ [][(~s_settings.has /\ s_op' = "get_settings") =>
             (s_got' = load_settings(s_env) /\ s_settings' = Some(s_got'))]_vars
    /\ [][k_api_key' = k_api_key /\ valid_keys' = valid_keys]_vars

C28_Witness ==
    /\ s_op = "get_settings"
    /\ s_settings.has
    /\ s_got # load_settings(s_env)
    /\ s_got.api_key # k_api_key
    /\ s_got.mcp_api_keys = valid_keys
    /\ request # NoRequest
    /\ k_requests # <<>>
----------------------------------------------------------------------------
(* Claims about the text the tools send *)

\* `short` is `text` without a run of whitespace at its start and one at its
\* end, and has no whitespace left at either end
StrippedAtEnds(text, short) ==
    /\ \E i \in 0..Len(text), j \in 0..Len(text) :
          /\ i <= j
          /\ short = SubSeq(text, i + 1, j)
          /\ \A k \in (1..i) \cup ((j + 1)..Len(text)) : text[k] \in Whitespace
    /\ short # <<>> => (short[1] \notin Whitespace /\ short[Len(short)] \notin Whitespace)

SanitizedAs(text, short) ==
    /\ short = _sanitize_text(text)
    /\ StrippedAtEnds(text, short)
    /\ _sanitize_text(short) = short

\* C29: _sanitize_text(T) is T without its leading and trailing whitespace,
\* every character between them kept in order, and sanitizing twice gives
\* what sanitizing once gives; the text of the call translate makes and of
\* every per-level call translate_compare makes is _sanitize_text of the
\* text the tool was invoked with.
C29_SanitizedTextSent ==
    /\ t_pc # "idle" =>
          /\ SanitizedAs(t_args.text, _sanitize_text(t_args.text))
          /\ t_sent.sent => SanitizedAs(t_args.text, t_sent.kwargs.text)
    /\ c_pc # "idle" =>
          /\ SanitizedAs(c_args.text, _sanitize_text(c_args.text))
          /\ \A n \in DOMAIN c_calls : SanitizedAs(c_args.text, c_calls[n].text)

C29_Witness ==
    /\ c_pc = "done"
    /\ c_args.text = <<" ", "H", "i", "\n">>
    /\ Len(c_calls) = 2
    /\ \A n \in DOMAIN c_calls : c_calls[n].text = <<"H", "i">>
    /\ c_entries[1].ok
----------------------------------------------------------------------------
(* Claims about the size of the comparison *)

\* C30: a translate_compare that gets past its validation and returns a
\* comparison report has compared at least one level: it made at least one
\* translate call and its report has at least one entry, also when the
\* caller gave an empty list of levels and when no level descriptor of the
\* language carries a code.
C30_ReportHasAnEntry ==
    (c_pc = "done" /\ PassedValidation /\ c_out.kind = "return") =>
        /\ c_codes # <<>>
        /\ c_calls # <<>>
        /\ DOMAIN c_entries # {}
        /\ Count(c_out.value, "-- ") >= 1

====
